---------------------------- MODULE Spec2Model ----------------------------
(***************************************************************************)
(* Centerline.__init__ of src/src/centerline/main.py as a state machine.   *)
(*                                                                         *)
(* Coordinates and distances are integers counted in half units (the value *)
(* 3 stands for 1.5), so that int() truncation in                          *)
(* get_reduction_coordinates is a real conversion.  Rings are rectilinear, *)
(* so arc lengths and interpolated points are exact integers.              *)
(*                                                                         *)
(* scipy's Voronoi, shapely's within / unary_union / MultiLineString are   *)
(* libraries outside the repository: each is modelled by its contract, and *)
(* where the contract leaves the outcome open the model chooses            *)
(* nondeterministically.                                                   *)
(***************************************************************************)
EXTENDS Integers, Sequences, FiniteSets, TLC

VARIABLES
    input_geom,          \* argument input_geom of __init__
    interpolation_dist,  \* argument interpolation_dist of __init__
    attributes,          \* argument **attributes of __init__
    fields,              \* the instance's attribute dictionary (self.__dict__)
    pc,                  \* position in __init__
    error,               \* the exception that ended the call, or "none"
    executed,            \* the stages that have run so far
    ringIdx,             \* index of the ring get_densified_borders is at
    running,             \* interpolation_distance, the loop variable (l.173)
    intermediate,        \* intermediate_points of the ring being walked
    points,              \* points of get_densified_borders
    vertices,            \* voronoi_diagram.vertices
    ridges,              \* voronoi_diagram.ridge_vertices
    linestrings,         \* linestrings of construct_centerline
    lookups,             \* the indices vertices[...] was subscripted with
    result,              \* the line pieces the instance holds
    counts               \* densified point count per step (repeated densification)

vars == <<input_geom, interpolation_dist, attributes, fields, pc, error,
          executed, ringIdx, running, intermediate, points, vertices, ridges,
          linestrings, lookups, result, counts>>

-----------------------------------------------------------------------------
(* Bounds of the model *)

\* largest interpolation distance the caller passes (half units)
MaxDist == 5

\* longest ridge list the Voronoi engine returns
MaxRidges == 2

\* the memory the intermediate_points list of one ring may take
MaxPts == 24

-----------------------------------------------------------------------------
(* Helpers *)

Abs(n) == IF n < 0 THEN -n ELSE n

Range(s) == {s[i] : i \in DOMAIN s}

MinOf(S) == CHOOSE m \in S : \A n \in S : m <= n

EmptyMap == [k \in {} |-> 0]

RECURSIVE Flatten(_)
Flatten(ss) == IF ss = <<>> THEN <<>> ELSE Head(ss) \o Flatten(Tail(ss))

-----------------------------------------------------------------------------
(* Geometries the caller may pass *)

Rect(x1, y1, x2, y2) ==
    << <<x1, y1>>, <<x2, y1>>, <<x2, y2>>, <<x1, y2>>, <<x1, y1>> >>

Poly(ext, holes) == [exterior |-> ext, interiors |-> holes]

GeomTiny == [type |-> "Polygon", coords |-> <<>>,
             polys |-> << Poly(Rect(0, 0, 1, 1), <<>>) >>]

GeomOff == [type |-> "Polygon", coords |-> <<>>,
            polys |-> << Poly(Rect(-3, -3, 1, 1), <<>>) >>]

GeomHole == [type |-> "Polygon", coords |-> <<>>,
             polys |-> << Poly(Rect(0, 0, 6, 6), << Rect(2, 2, 4, 4) >>) >>]

GeomMulti == [type |-> "MultiPolygon", coords |-> <<>>,
              polys |-> << Poly(Rect(0, 0, 2, 2), <<>>),
                           Poly(Rect(4, 0, 5, 1), <<>>) >>]

GeomLine == [type |-> "LineString", coords |-> << <<0, 0>>, <<4, 0>> >>,
             polys |-> <<>>]

GeomPoint == [type |-> "Point", coords |-> << <<1, 1>> >>, polys |-> <<>>]

Geometries == {GeomTiny, GeomOff, GeomHole, GeomMulti, GeomLine, GeomPoint}

\* the keyword arguments the caller may pass
AttributeMaps ==
    { EmptyMap,
      ("name" :> "river"),
      ("name" :> "road") @@ ("_min_x" :> 2),
      ("_input_geom" :> GeomHole),
      ("_interpolation_dist" :> 2) }

-----------------------------------------------------------------------------
(* Pure functions of the source *)

\* a validator that lets every geometry through
input_geometry_is_valid_mutant(g) == TRUE

\* input_geometry_is_valid (l.58-64)
input_geometry_is_valid(g) == g.type \in {"Polygon", "MultiPolygon"}

\* extract_polygons_from_input_geometry (l.140-144)
extract_polygons_from_input_geometry(g) == g.polys

\* the rings get_densified_borders walks, in its order (l.132-136)
RingsOfPolygon(p) == <<p.exterior>> \o p.interiors

RingsOf(g) ==
    LET ps == extract_polygons_from_input_geometry(g)
    IN  Flatten([i \in 1..Len(ps) |-> RingsOfPolygon(ps[i])])

\* every coordinate of a geometry
AllCoords(g) == Range(g.coords) \cup UNION {Range(RingsOf(g)[i]) : i \in 1..Len(RingsOf(g))}

\* int(): truncation toward zero of a half-unit count, as a half-unit count
IntTrunc(c) == IF c >= 0 THEN 2 * (c \div 2) ELSE -(2 * ((-c) \div 2))

\* get_reduction_coordinates (l.66-69)
get_reduction_coordinates(g) ==
    << IntTrunc(MinOf({p[1] : p \in AllCoords(g)})),
       IntTrunc(MinOf({p[2] : p \in AllCoords(g)})) >>

\* _create_point_with_reduced_coordinates (l.185-186)
create_point_with_reduced_coordinates(self, x, y) ==
    << x - self["_min_x"], y - self["_min_y"] >>

\* _create_point_with_restored_coordinates (l.120-121)
create_point_with_restored_coordinates(self, x, y) ==
    << x + self["_min_x"], y + self["_min_y"] >>

\* length of one axis-parallel edge
EdgeLength(p, q) == Abs(p[1] - q[1]) + Abs(p[2] - q[2])

\* linestring.length (l.174)
RECURSIVE LineLength(_)
LineLength(line) ==
    IF Len(line) < 2 THEN 0
    ELSE EdgeLength(line[1], line[2]) + LineLength(Tail(line))

Sign(n) == IF n > 0 THEN 1 ELSE IF n < 0 THEN -1 ELSE 0

\* linestring.interpolate(distance) (l.176): the point at that arc length
RECURSIVE Interpolate(_, _)
Interpolate(line, dist) ==
    IF dist <= 0 \/ Len(line) < 2 THEN line[1]
    ELSE LET l == EdgeLength(line[1], line[2])
         IN  IF dist <= l
             THEN << line[1][1] + Sign(line[2][1] - line[1][1]) * dist,
                     line[1][2] + Sign(line[2][2] - line[1][2]) * dist >>
             ELSE IF Len(line) = 2 THEN line[2]
             ELSE Interpolate(Tail(line), dist - l)

\* _get_coordinates_of_first_point (l.161-164)
get_coordinates_of_first_point(self, line) ==
    create_point_with_reduced_coordinates(self, line[1][1], line[1][2])

\* _get_coordinates_of_last_point (l.166-169)
get_coordinates_of_last_point(self, line) ==
    create_point_with_reduced_coordinates(self, line[Len(line)][1], line[Len(line)][2])

\* an off-by-one loop condition
LoopConditionMutant(dist, line_length) == dist <= line_length

\* the while condition of _get_coordinates_of_interpolated_points (l.175)
LoopCondition(dist, line_length) == dist < line_length

\* end vertices added only when nothing was interpolated
BoundaryPointsMutant(first, inter, last) ==
    IF inter = <<>> THEN <<first, last>> ELSE inter

\* the list _get_interpolated_boundary returns (l.159)
BoundaryPoints(first, inter, last) == <<first>> \o inter \o <<last>>

\* ridge_is_finite (l.117-118)
ridge_is_finite(ridge) == -1 \notin Range(ridge)

-----------------------------------------------------------------------------
(* shapely predicates and operations, by their contracts *)

\* s is a point in doubled coordinates (so that midpoints are integers); the
\* rings of Geometries are rectangles, so a ring encloses its bounding box
InClosedRing(s, ring) ==
    /\ \E p \in Range(ring) : 2 * p[1] <= s[1]
    /\ \E p \in Range(ring) : 2 * p[1] >= s[1]
    /\ \E p \in Range(ring) : 2 * p[2] <= s[2]
    /\ \E p \in Range(ring) : 2 * p[2] >= s[2]

InOpenRing(s, ring) ==
    /\ \E p \in Range(ring) : 2 * p[1] < s[1]
    /\ \E p \in Range(ring) : 2 * p[1] > s[1]
    /\ \E p \in Range(ring) : 2 * p[2] < s[2]
    /\ \E p \in Range(ring) : 2 * p[2] > s[2]

InPolygonClosure(s, poly) ==
    /\ InClosedRing(s, poly.exterior)
    /\ \A i \in 1..Len(poly.interiors) : ~InOpenRing(s, poly.interiors[i])

InPolygonInterior(s, poly) ==
    /\ InOpenRing(s, poly.exterior)
    /\ \A i \in 1..Len(poly.interiors) : ~InClosedRing(s, poly.interiors[i])

\* the two ends and the midpoint of a segment, in doubled coordinates
Samples(seg) ==
    { <<2 * seg[1][1], 2 * seg[1][2]>>,
      <<seg[1][1] + seg[2][1], seg[1][2] + seg[2][2]>>,
      <<2 * seg[2][1], 2 * seg[2][2]>> }

IsDegenerate(seg) == seg[1] = seg[2]

\* linestring.within(geom) (l.125): no point of the line outside the closure
\* of one polygon of geom, and some point of it in that polygon's interior.
\* Decided on the ends and the midpoint, which is exact for the segments the
\* vertex lists below can form.  Whether a zero-length line is treated as
\* its point (zeroAsPoint) or as an empty line depends on the GEOS version.
Within(seg, g, zeroAsPoint) ==
    /\ IsDegenerate(seg) => zeroAsPoint
    /\ \E i \in 1..Len(g.polys) :
          /\ \A s \in Samples(seg) : InPolygonClosure(s, g.polys[i])
          /\ \E s \in Samples(seg) : InPolygonInterior(s, g.polys[i])

\* a line piece regardless of its direction
Undirected(seg) == {seg[1], seg[2]}

\* unary_union(linestrings) (l.106): the distinct non-empty pieces covering
\* the same points; the segments of one vertex list meet only at their ends,
\* so no piece is split
RECURSIVE unary_union(_)
unary_union(ls) ==
    IF ls = <<>> THEN <<>>
    ELSE LET rest == unary_union(SelectSeq(Tail(ls),
                         LAMBDA s : Undirected(s) # Undirected(Head(ls))))
         IN  IF IsDegenerate(Head(ls)) THEN rest ELSE <<Head(ls)>> \o rest

-----------------------------------------------------------------------------
(* scipy.spatial.Voronoi, by its contract *)

Cross(p, q, r) == (q[1] - p[1]) * (r[2] - p[2]) - (q[2] - p[2]) * (r[1] - p[1])

\* fewer than three distinct points, or all of them on one line
DegenerateInput(pts) ==
    \A p \in Range(pts) : \A q \in Range(pts) : \A r \in Range(pts) : Cross(p, q, r) = 0

\* vertex lists the engine may return, in the reduced frame; the second has
\* two vertices at the same place (cocircular input points)
VertexLists ==
    { << <<1, 1>> >>,
      << <<1, 1>>, <<3, 1>>, <<1, 3>> >>,
      << <<1, 1>>, <<1, 1>>, <<3, 1>> >>,
      << <<1, 1>>, <<3, 3>>, <<5, 1>> >> }

\* a ridge joins two different vertex indices, -1 standing for infinity; a
\* bounded ridge is listed once, an unbounded one with -1 at either place
RidgePairs(n) ==
    {r \in (-1..(n - 1)) \X (-1..(n - 1)) : r[1] < r[2] \/ (r[2] = -1 /\ r[1] # -1)}

\* a diagram lists a bounded ridge once; several unbounded ridges may leave
\* one vertex
RidgeLists(n) ==
    UNION { {rs \in [1..k -> RidgePairs(n)] :
                \A i \in 1..k : \A j \in 1..k :
                    (i < j /\ rs[i] = rs[j]) => -1 \in Range(rs[i])} :
            k \in 0..MaxRidges }

\* what Voronoi(borders) may return for non-degenerate input: a diagram of
\* n distinct sites has at most 2n - 5 vertices
VoronoiOutputs(pts) ==
    UNION { { [vertices |-> v, ridges |-> r] : r \in RidgeLists(Len(v)) } :
            v \in {w \in VertexLists : Len(w) <= 2 * Cardinality(Range(pts)) - 5} }

\* what Voronoi(borders) may return when it accepts degenerate input: no
\* vertex, and at most one ridge, unbounded at both ends
DegenerateOutputs ==
    { [vertices |-> <<>>, ridges |-> r] : r \in { <<>>, << <<-1, -1>> >> } }

-----------------------------------------------------------------------------
(* The instance *)

\* setattr keeps the value the instance already has
assign_attributes_keeping_old(self, attrs) == self @@ attrs

\* assign_attributes_to_instance (l.71-73): setattr(self, key, value) per key
assign_attributes_to_instance(self, attrs) == attrs @@ self

\* interpolation_distance = self._interpolation_dist (l.173)
InitialDistance(self) == self["_interpolation_dist"]

\* the ring get_densified_borders is at
CurrentRing == RingsOf(fields["_input_geom"])[ringIdx]

\* the segment construct_centerline builds for a finite ridge (l.92-98)
RidgeLinestring(self, vs, ridge) ==
    << create_point_with_restored_coordinates(self, vs[ridge[1] + 1][1], vs[ridge[1] + 1][2]),
       create_point_with_restored_coordinates(self, vs[ridge[2] + 1][1], vs[ridge[2] + 1][2]) >>

\* linestring_is_within_input_geometry (l.123-127); len(linestring.coords[0])
\* is the number of ordinates of the first coordinate
linestring_is_within_input_geometry(self, linestring, zeroAsPoint) ==
    /\ Within(linestring, self["_input_geom"], zeroAsPoint)
    /\ Len(linestring[1]) > 1

\* the loop of construct_centerline (l.89-101)
FilterRidges(self, vs, rs, zeroAsPoint) ==
    LET kept == SelectSeq(rs, LAMBDA r :
                    /\ ridge_is_finite(r)
                    /\ linestring_is_within_input_geometry(
                           self, RidgeLinestring(self, vs, r), zeroAsPoint))
    IN  [i \in 1..Len(kept) |-> RidgeLinestring(self, vs, kept[i])]

\* the indices construct_centerline subscripts vertices with (l.93-96)
VertexLookups(rs) ==
    UNION {Range(rs[i]) : i \in {j \in 1..Len(rs) : ridge_is_finite(rs[j])}}

\* no check of the number of linestrings at all
NeverTooFew(n) == n < 0

\* the condition of raise TooFewRidgesError (l.103)
TooFewRidges(n) == n < 2

-----------------------------------------------------------------------------
(* The call Centerline(input_geom, interpolation_dist, **attributes) *)

Init ==
    /\ input_geom \in Geometries
    /\ interpolation_dist \in -1..MaxDist
    /\ attributes \in AttributeMaps
    /\ fields = EmptyMap
    /\ pc = "start"
    /\ error = "none"
    /\ executed = {}
    /\ ringIdx = 1
    /\ running = 0
    /\ intermediate = <<>>
    /\ points = <<>>
    /\ vertices = <<>>
    /\ ridges = <<>>
    /\ linestrings = <<>>
    /\ lookups = {}
    /\ result = <<>>
    /\ counts = EmptyMap

\* l.47-51: store the arguments, validate the geometry
InitValidate ==
    /\ pc = "start"
    /\ fields' = ("_input_geom" :> input_geom)
                   @@ ("_interpolation_dist" :> Abs(interpolation_dist))
    /\ executed' = executed \cup {"validate"}
    /\ IF input_geometry_is_valid(fields'["_input_geom"])
       THEN pc' = "reduce" /\ error' = error
       ELSE pc' = "failed" /\ error' = "InvalidInputType"
    /\ UNCHANGED <<input_geom, interpolation_dist, attributes, ringIdx, running,
                   intermediate, points, vertices, ridges, linestrings, lookups,
                   result, counts>>

\* l.53: self._min_x, self._min_y = self.get_reduction_coordinates()
GetReductionCoordinates ==
    /\ pc = "reduce"
    /\ LET o == get_reduction_coordinates(fields["_input_geom"])
       IN  fields' = ("_min_x" :> o[1]) @@ ("_min_y" :> o[2]) @@ fields
    /\ executed' = executed \cup {"reduce"}
    /\ pc' = "assign"
    /\ UNCHANGED <<input_geom, interpolation_dist, attributes, error, ringIdx,
                   running, intermediate, points, vertices, ridges, linestrings,
                   lookups, result, counts>>

\* l.54: self.assign_attributes_to_instance(attributes)
AssignAttributes ==
    /\ pc = "assign"
    /\ fields' = assign_attributes_to_instance(fields, attributes)
    /\ executed' = executed \cup {"assign"}
    /\ pc' = "ring"
    /\ UNCHANGED <<input_geom, interpolation_dist, attributes, error, ringIdx,
                   running, intermediate, points, vertices, ridges, linestrings,
                   lookups, result, counts>>

\* l.149-157, 172-174: _get_interpolated_boundary enters the next ring
StartRing ==
    /\ pc = "ring"
    /\ intermediate' = <<>>
    /\ running' = InitialDistance(fields)
    /\ executed' = executed \cup {"densify"}
    /\ pc' = "interp"
    /\ UNCHANGED <<input_geom, interpolation_dist, attributes, fields, error,
                   ringIdx, points, vertices, ridges, linestrings, lookups,
                   result, counts>>

\* l.175-181: one turn of the while loop
InterpolateStep ==
    /\ pc = "interp"
    /\ LoopCondition(running, LineLength(CurrentRing))
    /\ Len(intermediate) < MaxPts
    /\ LET p == Interpolate(CurrentRing, running)
       IN  intermediate' = Append(intermediate,
               create_point_with_reduced_coordinates(fields, p[1], p[2]))
    /\ running' = running + fields["_interpolation_dist"]
    /\ UNCHANGED <<input_geom, interpolation_dist, attributes, fields, pc, error,
                   executed, ringIdx, points, vertices, ridges, linestrings,
                   lookups, result, counts>>

\* l.183, 159, 133-136: the loop ends, the ring's points join the borders
EndRing ==
    /\ pc = "interp"
    /\ ~LoopCondition(running, LineLength(CurrentRing))
    /\ points' = points \o BoundaryPoints(
                     get_coordinates_of_first_point(fields, CurrentRing),
                     intermediate,
                     get_coordinates_of_last_point(fields, CurrentRing))
    /\ intermediate' = <<>>
    /\ ringIdx' = ringIdx + 1
    /\ pc' = IF ringIdx < Len(RingsOf(fields["_input_geom"])) THEN "ring" ELSE "voronoi"
    /\ UNCHANGED <<input_geom, interpolation_dist, attributes, fields, error,
                   executed, running, vertices, ridges, linestrings, lookups,
                   result, counts>>

\* l.111: Voronoi(borders) raises on degenerate input
VoronoiFails ==
    /\ pc = "voronoi"
    /\ DegenerateInput(points)
    /\ executed' = executed \cup {"voronoi"}
    /\ pc' = "failed"
    /\ error' = "QhullError"
    /\ UNCHANGED <<input_geom, interpolation_dist, attributes, fields, ringIdx,
                   running, intermediate, points, vertices, ridges, linestrings,
                   lookups, result, counts>>

\* l.88-106 and l.56: the diagram, the ridge filter, the count check, the
\* union and the base constructor
ConstructCenterline ==
    /\ pc = "voronoi"
    /\ \E vd \in (IF DegenerateInput(points) THEN DegenerateOutputs
                                             ELSE VoronoiOutputs(points)) :
         /\ vertices' = vd.vertices
         /\ ridges' = vd.ridges
         /\ lookups' = VertexLookups(vd.ridges)
    /\ \E zeroAsPoint \in (IF Cardinality(Range(vertices')) < Len(vertices')
                           THEN BOOLEAN ELSE {TRUE}) :
         linestrings' = FilterRidges(fields, vertices', ridges', zeroAsPoint)
    /\ IF TooFewRidges(Len(linestrings'))
       THEN /\ pc' = "failed"
            /\ error' = "TooFewRidges"
            /\ result' = <<>>
            /\ executed' = executed \cup {"voronoi", "filter"}
       ELSE /\ executed' = executed \cup {"voronoi", "filter", "merge"}
            /\ \E merged \in {unary_union(linestrings')} :
                 \/ /\ pc' = "done"
                    /\ error' = error
                    /\ result' = merged
                 \/ /\ Len(merged) < 2
                    /\ pc' = "failed"
                    /\ error' = "TypeError"
                    /\ result' = <<>>
    /\ UNCHANGED <<input_geom, interpolation_dist, attributes, fields, ringIdx,
                   running, intermediate, points, counts>>

Next ==
    \/ InitValidate
    \/ GetReductionCoordinates
    \/ AssignAttributes
    \/ StartRing
    \/ InterpolateStep
    \/ EndRing
    \/ VoronoiFails
    \/ ConstructCenterline

Spec == Init /\ [][Next]_vars

-----------------------------------------------------------------------------
(* get_densified_borders called again and again on one instance, each time *)
(* with another step                                                       *)

DensifyInit ==
    /\ input_geom \in {g \in Geometries : input_geometry_is_valid(g)}
    /\ interpolation_dist \in 1..MaxDist
    /\ attributes = EmptyMap
    /\ LET o == get_reduction_coordinates(input_geom)
       IN  fields = ("_min_x" :> o[1]) @@ ("_min_y" :> o[2])
                      @@ ("_input_geom" :> input_geom)
                      @@ ("_interpolation_dist" :> Abs(interpolation_dist))
    /\ pc = "ring"
    /\ error = "none"
    /\ executed = {"validate", "reduce", "assign"}
    /\ ringIdx = 1
    /\ running = 0
    /\ intermediate = <<>>
    /\ points = <<>>
    /\ vertices = <<>>
    /\ ridges = <<>>
    /\ linestrings = <<>>
    /\ lookups = {}
    /\ result = <<>>
    /\ counts = EmptyMap

\* l.129-138: get_densified_borders has returned; note the number of points
\* and call it once more with another step
DensifyAgain ==
    /\ pc = "voronoi"
    /\ counts' = (fields["_interpolation_dist"] :> Len(points)) @@ counts
    /\ \E d \in 1..MaxDist : fields' = [fields EXCEPT !["_interpolation_dist"] = d]
    /\ points' = <<>>
    /\ ringIdx' = 1
    /\ pc' = "ring"
    /\ UNCHANGED <<input_geom, interpolation_dist, attributes, error, executed,
                   running, intermediate, vertices, ridges, linestrings, lookups,
                   result>>

DensifyNext ==
    \/ StartRing
    \/ InterpolateStep
    \/ EndRing
    \/ DensifyAgain

DensifySpec == DensifyInit /\ [][DensifyNext]_vars

-----------------------------------------------------------------------------
(* Properties *)

IsPolygonType(g) == g.type = "Polygon" \/ g.type = "MultiPolygon"

Terminated == pc \in {"done", "failed"}

\* the fields __init__ itself sets on the instance
InternalFields == {"_input_geom", "_interpolation_dist", "_min_x", "_min_y"}

\* C1: a geometry that is neither a Polygon nor a MultiPolygon ends the call
\* with InvalidInputType at validation, and no later stage (origin,
\* attributes, densification, Voronoi, filter, merge) runs; a Polygon or
\* MultiPolygon never ends with InvalidInputType.
C1_ValidationFirst ==
    /\ ~IsPolygonType(input_geom) =>
          /\ pc \in {"start", "failed"}
          /\ pc = "start" => ENABLED InitValidate
          /\ pc = "failed" => error = "InvalidInputType"
          /\ executed \subseteq {"validate"}
          /\ DOMAIN fields \subseteq {"_input_geom", "_interpolation_dist"}
          /\ points = <<>> /\ vertices = <<>> /\ linestrings = <<>> /\ result = <<>>
    /\ IsPolygonType(input_geom) => error # "InvalidInputType"

C1_Witness ==
    /\ input_geom.type = "LineString"
    /\ pc = "failed"
    /\ error = "InvalidInputType"

C3_Containment ==
    pc = "done" => \A i \in 1..Len(result) : Within(result[i], input_geom, TRUE)

\* C4: the call terminates (each turn of the densification loop brings the
\* running distance closer to the ring's length), and it ends as a result,
\* as InvalidInputType or as TooFewRidges.
C4_Termination ==
    /\ [](Terminated => (pc = "done" \/ error \in {"InvalidInputType", "TooFewRidges"}))
    /\ [][(pc = "interp" /\ pc' = "interp") => running' > running]_vars

UnderSampled(g, d) ==
    \A i \in 1..Len(RingsOf(g)) : LineLength(RingsOf(g)[i]) < d

\* C6: a valid polygon whose every ring is shorter than
\* interpolation_dist fails with TooFewRidges and with nothing else.
C6_UnderSampledTooFewRidges ==
    (IsPolygonType(input_geom) /\ UnderSampled(input_geom, Abs(interpolation_dist))) =>
        /\ pc # "done"
        /\ pc = "failed" => error = "TooFewRidges"

\* C7: for one polygon, a smaller step never gives fewer densified points
\* than a larger one.
C7_MonotonicDensification ==
    \A d1 \in DOMAIN counts : \A d2 \in DOMAIN counts :
        d1 < d2 => counts[d1] >= counts[d2]

C7_Witness ==
    \E d1 \in DOMAIN counts : \E d2 \in DOMAIN counts :
        d1 < d2 /\ counts[d1] > counts[d2]

\* the segments the ridge filter is said to keep: finite ridges whose
\* restored segment lies within the geometry and has two different ends
SaidToBeKept(self, vs, rs) ==
    LET kept == SelectSeq(rs, LAMBDA r :
                    /\ r[1] # -1 /\ r[2] # -1
                    /\ ~IsDegenerate(RidgeLinestring(self, vs, r))
                    /\ Within(RidgeLinestring(self, vs, r), self["_input_geom"], TRUE))
    IN  [i \in 1..Len(kept) |-> RidgeLinestring(self, vs, kept[i])]

\* C8: the segments handed to the merger are, in ridge order, those of the
\* finite ridges whose restored segment lies within the geometry and is not
\* degenerate; no vertex is looked up with -1 and no segment with
\* coincident ends is kept.
C8_RidgeFilter ==
    "filter" \in executed =>
        /\ linestrings = SaidToBeKept(fields, vertices, ridges)
        /\ -1 \notin lookups
        /\ \A i \in 1..Len(linestrings) : ~IsDegenerate(linestrings[i])

\* the multiples k*d, k >= 1, that lie before the end of a ring of length L
Multiples(d, L) == {k \in 1..L : k * d < L}

\* first vertex, the points at d, 2d, 3d, ... before the end, last vertex
ExpectedBoundary(self, ring) ==
    LET d == self["_interpolation_dist"]
        n == Cardinality(Multiples(d, LineLength(ring)))
    IN  << get_coordinates_of_first_point(self, ring) >>
        \o [k \in 1..n |->
              LET p == Interpolate(ring, k * d)
              IN  create_point_with_reduced_coordinates(self, p[1], p[2])]
        \o << get_coordinates_of_last_point(self, ring) >>

\* C9: with a step d > 0 the densifier returns for every ring the reduced
\* first vertex, the reduced points at the multiples k*d < L in order, and
\* the reduced last vertex (2 + |{k : k*d < L}| points, the two end vertices
\* alone when d >= L); the borders are these lists in ring order.
C9_DensifierOutput ==
    (pc \in {"ring", "interp", "voronoi"} /\ fields["_interpolation_dist"] > 0) =>
        LET rings == RingsOf(fields["_input_geom"])
            walked == ringIdx - 1
        IN  /\ points = Flatten([i \in 1..walked |-> ExpectedBoundary(fields, rings[i])])
            /\ \A i \in 1..walked :
                  /\ Len(ExpectedBoundary(fields, rings[i]))
                       = 2 + Cardinality(Multiples(fields["_interpolation_dist"],
                                                   LineLength(rings[i])))
                  /\ fields["_interpolation_dist"] >= LineLength(rings[i]) =>
                       ExpectedBoundary(fields, rings[i])
                         = << get_coordinates_of_first_point(fields, rings[i]),
                              get_coordinates_of_last_point(fields, rings[i]) >>
            /\ pc = "interp" =>
                  /\ Len(intermediate) = running \div fields["_interpolation_dist"] - 1
                  /\ intermediate = SubSeq(ExpectedBoundary(fields, rings[ringIdx]),
                                           2, Len(intermediate) + 1)

C9_Witness ==
    /\ pc = "voronoi"
    /\ fields["_interpolation_dist"] > 0
    /\ Len(RingsOf(fields["_input_geom"])) = 2
    /\ \E i \in 1..2 : fields["_interpolation_dist"] >= LineLength(RingsOf(fields["_input_geom"])[i])
    /\ \E i \in 1..2 : fields["_interpolation_dist"] < LineLength(RingsOf(fields["_input_geom"])[i])

\* C10: the reduction origin, the interpolation step and the geometry used
\* for the containment test are those derived from input_geom and
\* interpolation_dist, whatever attributes the caller supplies.
C10_AttributesDoNotInterfere ==
    "assign" \in executed =>
        /\ fields["_min_x"] = get_reduction_coordinates(input_geom)[1]
        /\ fields["_min_y"] = get_reduction_coordinates(input_geom)[2]
        /\ fields["_interpolation_dist"] = Abs(interpolation_dist)
        /\ fields["_input_geom"] = input_geom

=============================================================================
